---- MODULE Spec2Model ----
(***************************************************************************)
(* Model of src/app.py: the PlumbID form.  One submission of the form runs *)
(* the script body under `if submitted:` once: photo/OCR stage, query      *)
(* composition, search call and result rendering.  Text is modelled as a   *)
(* sequence of one-character strings so that strip(), upper() and join()   *)
(* are computed, not assumed.                                              *)
(***************************************************************************)
EXTENDS Integers, Sequences, FiniteSets, TLC

VARIABLES API_BASE, OCR_SPACE_KEY, pc, q, photo, ocr_text, combined_query,
          out, ocrCalls, ocrHttp, searchCalls, searchHttp,
          ocrOutcome, searchOutcome, data, item, card

vars == <<API_BASE, OCR_SPACE_KEY, pc, q, photo, ocr_text, combined_query,
          out, ocrCalls, ocrHttp, searchCalls, searchHttp,
          ocrOutcome, searchOutcome, data, item, card>>

(* ---------------- bounds ---------------- *)
MaxItems == 2
MaxAltLen == 3

(* ---------------- text (python str) ---------------- *)
\* the only whitespace character in the modelled alphabets is the blank
IsSpace(c) == c = " "

RECURSIVE LStrip(_)
LStrip(s) == IF s = <<>> THEN <<>>
             ELSE IF IsSpace(Head(s)) THEN LStrip(Tail(s)) ELSE s

RECURSIVE RStrip(_)
RStrip(s) == IF s = <<>> THEN <<>>
             ELSE IF IsSpace(s[Len(s)]) THEN RStrip(SubSeq(s, 1, Len(s) - 1)) ELSE s

Strip(s) == RStrip(LStrip(s))

UpperChar(c) == CASE c = "n" -> "N"
                  [] c = "a" -> "A"
                  [] c = "b" -> "B"
                  [] c = "c" -> "C"
                  [] OTHER -> c

Upper(s) == [i \in 1..Len(s) |-> UpperChar(s[i])]

RECURSIVE JoinSpace(_)
JoinSpace(parts) == IF parts = <<>> THEN <<>>
                    ELSE IF Len(parts) = 1 THEN parts[1]
                    ELSE parts[1] \o <<" ">> \o JoinSpace(Tail(parts))

Digits == <<"0", "1", "2", "3", "4", "5", "6", "7", "8", "9">>

RECURSIVE IntStr(_)
IntStr(n) == IF n < 10 THEN <<Digits[n + 1]>>
             ELSE IntStr(n \div 10) \o <<Digits[(n % 10) + 1]>>

NA == <<"N", "/", "A">>
Unknown == <<"(", "u", "n", "k", "n", "o", "w", "n", ")">>
NoneText == <<"N", "o", "n", "e">>

(* ---------------- JSON values held in a dict ---------------- *)
Absent == [t |-> "absent", s |-> <<>>, n |-> 0]
JNull == [t |-> "null", s |-> <<>>, n |-> 0]
JStr(s) == [t |-> "str", s |-> s, n |-> 0]
JInt(n) == [t |-> "int", s |-> <<>>, n |-> n]

DictGet(v, default) == IF v.t = "absent" THEN default ELSE v

PyStr(v) == CASE v.t = "str" -> v.s
              [] v.t = "int" -> IntStr(v.n)
              [] OTHER -> NoneText

Truthy(v) == \/ v.t = "str" /\ v.s # <<>>
             \/ v.t = "int" /\ v.n # 0

(* ---------------- pretty_card ---------------- *)
Line(label, text) == [label |-> label, text |-> text]

NoImage == Line("write", <<"N", "o", " ", "i", "m", "a", "g", "e">>)

\* col1: the image, or the "No image" placeholder; a failing st.image is caught
MediaLines(it) ==
    LET img_url == IF Truthy(it.image_url) THEN it.image_url ELSE JStr(<<>>)
    IN IF Truthy(img_url)
       THEN IF it.image_loads THEN <<Line("image", PyStr(img_url))>> ELSE <<NoImage>>
       ELSE <<NoImage>>

\* item.get('part_name','(unknown)') formatted into the heading
CardTitle(it) == PyStr(DictGet(it.part_name, JStr(Unknown)))

AltShownCaseSensitive(alt) == Strip(PyStr(alt)) # <<>> /\ Strip(PyStr(alt)) # NA

\* str(alt).strip() and str(alt).strip().upper() != "N/A"
AltShown(alt) == Strip(PyStr(alt)) # <<>> /\ Upper(Strip(PyStr(alt))) # NA

Optional(v, label) == IF Truthy(v) THEN <<Line(label, PyStr(v))>> ELSE <<>>

DetailLines(it) ==
    LET alt == DictGet(it.alt_mpn, JStr(<<>>))
    IN <<Line("title", CardTitle(it)),
         Line("Brand", PyStr(DictGet(it.brand, JStr(<<>>)))),
         Line("MPN", PyStr(DictGet(it.mpn, JStr(<<>>))))>>
       \o (IF AltShown(alt) THEN <<Line("Alt MPN", PyStr(alt))>> ELSE <<>>)
       \o <<Line("Category", PyStr(DictGet(it.category, JStr(<<>>))))>>
       \o Optional(DictGet(it.description, JStr(<<>>)), "description")
       \o Optional(DictGet(it.compatible_models, JStr(<<>>)), "Compatible")
       \o Optional(DictGet(it.datasheet_url, JStr(<<>>)), "Open datasheet")

\* an item that is not a JSON object has no .get: line 41 raises, outside any try
pretty_card(it) ==
    IF ~it.isDict
    THEN [raised |-> TRUE, lines |-> <<>>]
    ELSE [raised |-> FALSE, lines |-> MediaLines(it) \o DetailLines(it)]

(* ---------------- UI output (streamlit calls, in order) ---------------- *)
Event(kind, msg, arg, lines) == [kind |-> kind, msg |-> msg, arg |-> arg, lines |-> lines]

PleaseType == Event("warning", "Please type something or upload a photo.", <<>>, <<>>)
CouldNotProcess(e) == Event("warning", "Could not process image: ", e, <<>>)
SearchFailed(e) == Event("error", "Search failed: ", e, <<>>)
Found(count) == Event("success", "Found N result(s).", PyStr(count), <<>>)
NoMatches == Event("info", "No matches. Try another angle: brand + model, or clearer photo of the label/part.", <<>>, <<>>)
CardEvent(lines) == Event("card", "", <<>>, lines)
Divider == Event("divider", "", <<>>, <<>>)

(* ---------------- OCR client ---------------- *)
OcrFailKinds == {"network", "timeout", "non2xx", "bad_json", "errored"}

ParsedSamples == { <<>>, << <<>> >>, << <<"b">> >>, << <<" ", "b">>, <<"c", " ">> >> }

\* what the POST to api.ocr.space can come back with
OcrResponses == [kind : OcrFailKinds, parsed : {<<>>}] \cup [kind : {"ok"}, parsed : ParsedSamples]

ocr_space_image_bytes_no_except(api_key, resp) ==
    IF api_key = <<>>
    THEN [http |-> 0, raised |-> FALSE, text |-> <<>>]
    ELSE IF resp.kind \in {"network", "timeout", "non2xx", "bad_json"}
         THEN [http |-> 1, raised |-> TRUE, text |-> <<>>]
         ELSE IF resp.kind = "errored"
              THEN [http |-> 1, raised |-> FALSE, text |-> <<>>]
              ELSE [http |-> 1, raised |-> FALSE, text |-> Strip(JoinSpace(resp.parsed))]

ocr_space_image_bytes(api_key, resp) ==
    IF api_key = <<>>
    THEN [http |-> 0, raised |-> FALSE, text |-> <<>>]
    ELSE IF resp.kind \in {"network", "timeout", "non2xx", "bad_json"}
         THEN [http |-> 1, raised |-> FALSE, text |-> <<>>]
         ELSE IF resp.kind = "errored"
              THEN [http |-> 1, raised |-> FALSE, text |-> <<>>]
              ELSE [http |-> 1, raised |-> FALSE, text |-> Strip(JoinSpace(resp.parsed))]

(* ---------------- photo stage of the submission ---------------- *)
Photos == {"none", "good", "bad"}

PhotoResult(events, text, calls, http) ==
    [events |-> events, ocr_text |-> text, ocrCalls |-> calls, ocrHttp |-> http]

OcrStep(api_key, resp) ==
    LET r == ocr_space_image_bytes(api_key, resp)
        preview == Event("preview", "Uploaded", <<>>, <<>>)
    IN IF r.raised
       THEN PhotoResult(<<preview, CouldNotProcess(<<resp.kind>>)>>, <<>>, 1, r.http)
       ELSE PhotoResult(<<preview>> \o (IF r.text # <<>>
                                        THEN <<Event("expander", "OCR text found", r.text, <<>>)>>
                                        ELSE <<>>),
                        r.text, 1, r.http)

process_photo_ocr_after_except(ph, api_key, resp) ==
    IF ph = "none" THEN PhotoResult(<<>>, <<>>, 0, 0)
    ELSE IF ph = "bad"
         THEN LET o == OcrStep(api_key, resp)
              IN PhotoResult(<<CouldNotProcess(<<"decode">>)>> \o Tail(o.events),
                             o.ocr_text, o.ocrCalls, o.ocrHttp)
         ELSE OcrStep(api_key, resp)

\* "bad": photo.read(), Image.open or the preview st.image raises
process_photo(ph, api_key, resp) ==
    IF ph = "none" THEN PhotoResult(<<>>, <<>>, 0, 0)
    ELSE IF ph = "bad"
         THEN PhotoResult(<<CouldNotProcess(<<"decode">>)>>, <<>>, 0, 0)
         ELSE OcrStep(api_key, resp)

(* ---------------- query composer ---------------- *)
TypedSamples == { <<>>, <<" ">>, <<"a">>, <<" ", "a", " ">> }

compose_no_strip(typed, ocr) == JoinSpace(<<typed, ocr>>)

compose(typed, ocr) == Strip(JoinSpace(<<typed, ocr>>))

(* ---------------- search responses ---------------- *)
NoList == [t |-> "absent", v |-> <<>>]
List(v) == [t |-> "list", v |-> v]

Response(count, results, items) ==
    [isDict |-> TRUE, count |-> count, results |-> results, items |-> items]

NonDictResponse == [isDict |-> FALSE, count |-> Absent, results |-> NoList, items |-> NoList]

ZeroResponse == Response(JInt(0), List(<<>>), NoList)

MakeItem(isDict, image_url, image_loads, part_name, alt_mpn, other) ==
    [isDict |-> isDict, image_url |-> image_url, image_loads |-> image_loads,
     part_name |-> part_name, brand |-> other, mpn |-> other, alt_mpn |-> alt_mpn,
     category |-> other, description |-> other, compatible_models |-> other,
     datasheet_url |-> other]

GoodItem == MakeItem(TRUE, Absent, TRUE, JStr(<<"V">>), JStr(NA), JStr(<<"x">>))
BrokenImageItem == MakeItem(TRUE, JStr(<<"u">>), FALSE, JStr(<<"G">>), Absent, Absent)
NonDictItem == MakeItem(FALSE, Absent, TRUE, Absent, Absent, Absent)

ItemSamples == {GoodItem, BrokenImageItem, NonDictItem}

ItemLists == UNION {[1..k -> ItemSamples] : k \in 0..MaxItems}

CountValues == {Absent, JNull} \cup {JInt(n) : n \in 0..MaxItems}

ListValues == {NoList} \cup {List(v) : v \in ItemLists}

SearchFailKinds == {"non2xx", "network", "timeout", "bad_json"}

\* what the GET {API_BASE}/search can come back with
SearchEnvs ==
    [kind : SearchFailKinds, data : {NonDictResponse}]
    \cup [kind : {"ok"}, data : {NonDictResponse}]
    \cup [kind : {"ok"}, data : {Response(c, r, i) : c \in CountValues, r \in ListValues, i \in ListValues}]

(* ---------------- search client ---------------- *)
api_search_swallow(base, env) ==
    IF base = <<>>
    THEN [http |-> 0, raised |-> FALSE, data |-> ZeroResponse]
    ELSE IF env.kind \in SearchFailKinds
         THEN [http |-> 1, raised |-> FALSE, data |-> ZeroResponse]
         ELSE [http |-> 1, raised |-> FALSE, data |-> env.data]

api_search_no_guard(base, env) ==
    IF env.kind \in SearchFailKinds
    THEN [http |-> 1, raised |-> TRUE, data |-> NonDictResponse]
    ELSE [http |-> 1, raised |-> FALSE, data |-> env.data]

api_search(base, env) ==
    IF base = <<>>
    THEN [http |-> 0, raised |-> FALSE, data |-> ZeroResponse]
    ELSE IF env.kind \in SearchFailKinds
         THEN [http |-> 1, raised |-> TRUE, data |-> NonDictResponse]
         ELSE [http |-> 1, raised |-> FALSE, data |-> env.data]

(* ---------------- result rendering ---------------- *)
ListTruthy(l) == l.t = "list" /\ l.v # <<>>

response_items_results_only(d) == IF ListTruthy(d.results) THEN d.results.v ELSE <<>>

\* data.get("results") or data.get("items") or []
response_items(d) ==
    IF ListTruthy(d.results) THEN d.results.v
    ELSE IF ListTruthy(d.items) THEN d.items.v
    ELSE <<>>

\* data.get("count", len(items))
response_count(d) == DictGet(d.count, JInt(Len(response_items(d))))

RECURSIVE RenderItems(_)
RenderItems(items) ==
    IF items = <<>> THEN [raised |-> FALSE, events |-> <<>>]
    ELSE LET c == pretty_card(Head(items))
         IN IF c.raised THEN [raised |-> TRUE, events |-> <<>>]
            ELSE LET rest == RenderItems(Tail(items))
                 IN [raised |-> rest.raised,
                     events |-> <<CardEvent(c.lines), Divider>> \o rest.events]

\* the body of the try block once api_search has returned
render_response(d) ==
    IF ~d.isDict THEN <<SearchFailed(<<"AttributeError">>)>>
    ELSE LET items == response_items(d)
             count == response_count(d)
             rend == RenderItems(items)
         IN <<Found(count)>> \o rend.events
            \o (IF rend.raised THEN <<SearchFailed(<<"AttributeError">>)>>
                ELSE IF count.t = "int" /\ count.n = 0 THEN <<NoMatches>>
                ELSE <<>>)

search_block(base, env) ==
    LET r == api_search(base, env)
    IN [http |-> r.http,
        outcome |-> IF r.http = 0 THEN "no_base" ELSE IF ~env.data.isDict /\ env.kind = "ok" THEN "non_dict" ELSE env.kind,
        data |-> r.data,
        events |-> IF r.raised THEN <<SearchFailed(<<env.kind>>)>> ELSE render_response(r.data)]

(* ---------------- the form flow ---------------- *)
DefaultItem == GoodItem
NoCard == [rendered |-> FALSE, raised |-> FALSE, lines |-> <<>>]

Init ==
    /\ API_BASE \in {<<>>, <<"h">>}
    /\ OCR_SPACE_KEY \in {<<>>, <<"k">>}
    /\ pc = "idle"
    /\ q = <<>>
    /\ photo = "none"
    /\ ocr_text = <<>>
    /\ combined_query = <<>>
    /\ out = <<>>
    /\ ocrCalls = 0
    /\ ocrHttp = 0
    /\ searchCalls = 0
    /\ searchHttp = 0
    /\ ocrOutcome = "none"
    /\ searchOutcome = "none"
    /\ data = NonDictResponse
    /\ item = DefaultItem
    /\ card = NoCard

\* the user presses "Search": a fresh script run starts with the form values
Submit ==
    /\ pc = "idle"
    /\ \E typed \in TypedSamples, ph \in Photos :
          /\ q' = typed
          /\ photo' = ph
    /\ pc' = "photo"
    /\ UNCHANGED <<API_BASE, OCR_SPACE_KEY, ocr_text, combined_query, out, ocrCalls,
                   ocrHttp, searchCalls, searchHttp, ocrOutcome, searchOutcome, data,
                   item, card>>

PhotoStage ==
    /\ pc = "photo"
    /\ \E resp \in OcrResponses :
          LET r == process_photo(photo, OCR_SPACE_KEY, resp)
          IN /\ ocr_text' = r.ocr_text
             /\ out' = out \o r.events
             /\ ocrCalls' = r.ocrCalls
             /\ ocrHttp' = r.ocrHttp
             /\ ocrOutcome' = IF r.ocrHttp = 0 THEN "none" ELSE resp.kind
    /\ pc' = "compose"
    /\ UNCHANGED <<API_BASE, OCR_SPACE_KEY, q, photo, combined_query, searchCalls,
                   searchHttp, searchOutcome, data, item, card>>

ComposeStage ==
    /\ pc = "compose"
    /\ combined_query' = compose(q, ocr_text)
    /\ IF combined_query' = <<>>
       THEN /\ out' = out \o <<PleaseType>>
            /\ pc' = "done"
       ELSE /\ out' = out \o <<Event("write", "Searching for: ", combined_query', <<>>)>>
            /\ pc' = "search"
    /\ UNCHANGED <<API_BASE, OCR_SPACE_KEY, q, photo, ocr_text, ocrCalls, ocrHttp,
                   searchCalls, searchHttp, ocrOutcome, searchOutcome, data, item, card>>

SearchStage ==
    /\ pc = "search"
    /\ \E env \in SearchEnvs :
          LET r == search_block(API_BASE, env)
          IN /\ out' = out \o r.events
             /\ searchHttp' = r.http
             /\ searchOutcome' = r.outcome
             /\ data' = r.data
    /\ searchCalls' = searchCalls + 1
    /\ pc' = "done"
    /\ UNCHANGED <<API_BASE, OCR_SPACE_KEY, q, photo, ocr_text, combined_query,
                   ocrCalls, ocrHttp, ocrOutcome, item, card>>

\* the next interaction reruns the script from the top: nothing is retained
Rerun ==
    /\ pc = "done"
    /\ pc' = "idle"
    /\ q' = <<>>
    /\ photo' = "none"
    /\ ocr_text' = <<>>
    /\ combined_query' = <<>>
    /\ out' = <<>>
    /\ ocrCalls' = 0
    /\ ocrHttp' = 0
    /\ searchCalls' = 0
    /\ searchHttp' = 0
    /\ ocrOutcome' = "none"
    /\ searchOutcome' = "none"
    /\ data' = NonDictResponse
    /\ UNCHANGED <<API_BASE, OCR_SPACE_KEY, item, card>>

Next == Submit \/ PhotoStage \/ ComposeStage \/ SearchStage \/ Rerun

Spec == Init /\ [][Next]_vars

(* ---------------- rendering one card, over the whole item domain ---------------- *)
AltAlphabet == {" ", "N", "n", "/", "A", "a", "7"}

AltTexts == UNION {[1..k -> AltAlphabet] : k \in 0..MaxAltLen}

CardItems ==
    {NonDictItem} \cup
    {MakeItem(TRUE, img[1], img[2], pn, alt, other) :
        img \in {<<Absent, TRUE>>, <<JNull, TRUE>>, <<JStr(<<>>), TRUE>>,
                 <<JStr(<<"u">>), TRUE>>, <<JStr(<<"u">>), FALSE>>},
        pn \in {Absent, JNull, JStr(<<>>), JStr(<<"V">>)},
        alt \in {Absent, JNull} \cup {JStr(t) : t \in AltTexts},
        other \in {Absent, JStr(<<"x">>)}}

CardInit ==
    /\ API_BASE = <<>>
    /\ OCR_SPACE_KEY = <<>>
    /\ pc = "card"
    /\ q = <<>>
    /\ photo = "none"
    /\ ocr_text = <<>>
    /\ combined_query = <<>>
    /\ out = <<>>
    /\ ocrCalls = 0
    /\ ocrHttp = 0
    /\ searchCalls = 0
    /\ searchHttp = 0
    /\ ocrOutcome = "none"
    /\ searchOutcome = "none"
    /\ data = NonDictResponse
    /\ item \in CardItems
    /\ card = NoCard

CardRender ==
    /\ pc = "card"
    /\ ~card.rendered
    /\ LET c == pretty_card(item)
       IN card' = [rendered |-> TRUE, raised |-> c.raised, lines |-> c.lines]
    /\ UNCHANGED <<API_BASE, OCR_SPACE_KEY, pc, q, photo, ocr_text, combined_query,
                   out, ocrCalls, ocrHttp, searchCalls, searchHttp, ocrOutcome,
                   searchOutcome, data, item>>

CardNext == CardRender

CardSpec == CardInit /\ [][CardNext]_vars

(* ======================= properties ======================= *)
HasKind(k) == \E i \in 1..Len(out) : out[i].kind = k
HasEvent(e) == \E i \in 1..Len(out) : out[i] = e
HasMsg(m) == \E i \in 1..Len(out) : out[i].msg = m
LastEvent == out[Len(out)]
Cards == SelectSeq(out, LAMBDA e : e.kind = "card")

\* what the submission printed after the "Searching for" line
SearchOut ==
    LET i == CHOOSE j \in 1..Len(out) : out[j].msg = "Searching for: "
    IN SubSeq(out, i + 1, Len(out))

HasLine(label) == \E i \in 1..Len(card.lines) : card.lines[i].label = label
LineText(label) == card.lines[CHOOSE i \in 1..Len(card.lines) : card.lines[i].label = label].text

\* C1: a finished submission whose trimmed single-space join of typed text and
\* OCR text is empty ended with the "Please type something or upload a photo."
\* warning and made no api_search call (and no search request); when no photo
\* was submitted it made no OCR call either.
C1_EmptyQueryNoSearch ==
    (pc = "done" /\ Strip(JoinSpace(<<q, ocr_text>>)) = <<>>) =>
        /\ Len(out) > 0
        /\ LastEvent = PleaseType
        /\ searchCalls = 0
        /\ searchHttp = 0
        /\ photo = "none" => (ocrCalls = 0 /\ ocrHttp = 0)

C1_Witness ==
    /\ pc = "done"
    /\ q = <<" ">>
    /\ photo = "good"
    /\ ocrOutcome = "ok"
    /\ ocr_text = <<>>
    /\ LastEvent = PleaseType
    /\ searchCalls = 0

\* C2: when the search call of a submission fails (non-2xx, network failure,
\* timeout, malformed JSON) the submission ends with "Search failed: <message>",
\* shows no card and no "Found N result(s)" line, and api_search was called
\* exactly once with exactly one request.
C2_SearchFailureReported ==
    (pc = "done" /\ searchOutcome \in SearchFailKinds) =>
        /\ combined_query # <<>>
        /\ LastEvent = SearchFailed(<<searchOutcome>>)
        /\ ~HasKind("card")
        /\ ~HasKind("success")
        /\ searchCalls = 1
        /\ searchHttp = 1

C2_Witness ==
    /\ pc = "done"
    /\ searchOutcome = "non2xx"
    /\ LastEvent = SearchFailed(<<"non2xx">>)

\* C4: with an empty API_BASE no search request is ever made, and a submission
\* that calls api_search gets the zero-result response and shows no error.
C4_NoBaseNoRequest ==
    API_BASE = <<>> =>
        /\ searchHttp = 0
        /\ searchCalls > 0 =>
              /\ data = ZeroResponse
              /\ searchOutcome = "no_base"
              /\ ~HasKind("error")
              /\ HasEvent(Found(JInt(0)))

C4_Witness ==
    /\ API_BASE = <<>>
    /\ pc = "done"
    /\ searchCalls = 1
    /\ combined_query = <<"a">>

\* C3 as stated: after a failed OCR call the client returned "" from a single
\* request, nothing about it was shown, and a submission with non-empty typed
\* text went on to the search call.
C3_Original ==
    (pc = "done" /\ ocrOutcome \in OcrFailKinds) =>
        /\ ocr_text = <<>>
        /\ ocrCalls = 1
        /\ ocrHttp = 1
        /\ ~HasMsg("Could not process image: ")
        /\ q # <<>> => searchCalls = 1

\* C3 (amended): after a failed OCR call (network, timeout, non-2xx, malformed
\* JSON, processing-error flag) the client returned "" from a single request,
\* no image warning was shown, the composed query is the trimmed typed text,
\* and the search call is made exactly when that trimmed text is non-empty.
C3_OcrFailSoft ==
    (ocrOutcome \in OcrFailKinds) =>
        /\ ocr_text = <<>>
        /\ ocrCalls = 1
        /\ ocrHttp = 1
        /\ ~HasMsg("Could not process image: ")
        /\ pc \in {"search", "done"} => combined_query = Strip(q)
        /\ pc = "done" => (Strip(q) # <<>> <=> searchCalls = 1)
        /\ pc = "done" => (Strip(q) = <<>> <=> LastEvent = PleaseType)

C3_Witness ==
    /\ pc = "done"
    /\ ocrOutcome = "timeout"
    /\ q = <<" ", "a", " ">>
    /\ combined_query = <<"a">>
    /\ searchCalls = 1

\* C9 as stated: a photo that cannot be decoded gives a warning, no OCR call,
\* empty OCR text, and a submission with non-empty typed text reaches the
\* search call.
C9_Original ==
    (pc = "done" /\ photo = "bad") =>
        /\ HasEvent(CouldNotProcess(<<"decode">>))
        /\ ocrCalls = 0
        /\ ocr_text = <<>>
        /\ q # <<>> => searchCalls = 1

\* C9 (amended): a photo that cannot be decoded or previewed gives the "Could
\* not process image" warning, no OCR call and empty OCR text; the composed
\* query is the trimmed typed text and the search call is made exactly when
\* that trimmed text is non-empty.
C9_DecodeFailure ==
    (photo = "bad" /\ pc \in {"compose", "search", "done"}) =>
        /\ out[1] = CouldNotProcess(<<"decode">>)
        /\ ocrCalls = 0
        /\ ocrHttp = 0
        /\ ocr_text = <<>>
        /\ pc \in {"search", "done"} => combined_query = Strip(q)
        /\ pc = "done" => (Strip(q) # <<>> <=> searchCalls = 1)

C9_Witness ==
    /\ pc = "done"
    /\ photo = "bad"
    /\ OCR_SPACE_KEY # <<>>
    /\ q = <<"a">>
    /\ searchCalls = 1
    /\ out[1] = CouldNotProcess(<<"decode">>)

\* C5: a response {items: [x]} without results and count prints exactly what
\* {results: [x], count: 1} prints; in general the "Found" line carries the
\* count field, or when count is absent the length of the results array, or of
\* the items array when results is missing or empty.
C5_ItemsFallback ==
    (pc = "done" /\ searchOutcome = "ok" /\ data.isDict) =>
        /\ (data.results.t = "absent" /\ data.count.t = "absent"
               /\ data.items.t = "list" /\ Len(data.items.v) = 1)
             => SearchOut = render_response(Response(JInt(1), List(data.items.v), NoList))
        /\ LET arr == IF data.results.t = "list" /\ Len(data.results.v) > 0
                      THEN data.results.v
                      ELSE data.items.v
           IN SearchOut[1] = Found(IF data.count.t = "absent" THEN JInt(Len(arr)) ELSE data.count)

C5_Witness ==
    /\ pc = "done"
    /\ searchOutcome = "ok"
    /\ data = Response(Absent, NoList, List(<<GoodItem>>))
    /\ Len(Cards) = 1
    /\ HasEvent(Found(JInt(1)))

DictItems(items) == SelectSeq(items, LAMBDA it : it.isDict)

\* C8: after a successful search every item of the response that can be
\* rendered is on screen as a card, in response order, whatever happened while
\* rendering the items before it.
C8_RenderIsolated ==
    (pc = "done" /\ searchOutcome = "ok" /\ data.isDict) =>
        LET want == DictItems(response_items(data))
        IN /\ Len(Cards) = Len(want)
           /\ \A i \in 1..Len(want) : Cards[i] = CardEvent(pretty_card(want[i]).lines)

\* C10: when the search call and the rendering succeeded, the "No matches"
\* guidance is on screen exactly when no card is.
C10_GuidanceIffNoCards ==
    (pc = "done" /\ searchOutcome \in {"ok", "no_base"} /\ ~HasKind("error")) =>
        (HasEvent(NoMatches) <=> Len(Cards) = 0)

AltForms == {<<n, "/", a>> : n \in {"N", "n"}, a \in {"A", "a"}}

AltLine == Line("Alt MPN", PyStr(item.alt_mpn))

C7_TitleFallback ==
    (card.rendered /\ ~card.raised /\ item.part_name.t \in {"absent", "str"}) =>
        LineText("title") = IF item.part_name.t = "absent" \/ item.part_name.s = <<>>
                            THEN Unknown
                            ELSE item.part_name.s

====
